---- MODULE Spec2Model ----
(***************************************************************************)
(* Model of validation_analysis.py: the validation of a fuzzy expert       *)
(* system's learning-style scores against questionnaire scores.            *)
(*                                                                         *)
(* Numbers.  Scores are exact rationals, held as integers in units of      *)
(* 1/Scale.  The universe np.arange(0, 11.01, 0.01) is the grid of the     *)
(* multiples of 0.01, i.e. of GridStep score units.  Membership degrees    *)
(* are held as integers in units of 1/MemOne.  A table cell is a record:   *)
(* Num(v) holds the number v, NonNumeric holds text.                       *)
(***************************************************************************)
EXTENDS Integers, Sequences, FiniteSets

\* ------------------------------------------------------------------ bounds

\* Score units per universe step of 0.01 (the resolution of the scores).
SubSteps == 3

\* Records per input table.
MaxRecords == 2

\* Rows of one dimension in a result table handed to the agreement report.
MaxDimRows == 10

\* --------------------------------------------------------------- constants

GridStep == SubSteps

Scale == 100 * SubSteps

MemOne == 2 * Scale * GridStep

\* len(np.arange(0, 11.01, 0.01)): the grid points 0.00, 0.01, ..., 11.00
UniverseLen == 1101

universe(i) == i * GridStep

UniverseMax == universe(UniverseLen - 1)

\* the literal 5.5 of get_questionnaire_category
Midpoint == (55 * Scale) \div 10

Num(v) == [numeric |-> TRUE, value |-> v]

NonNumeric == [numeric |-> FALSE, value |-> 0]

P1 == "Pole_1_Tendency"

P2 == "Pole_2_Tendency"

UNDET == "Undetermined"

YES == "Yes"

NO == "No"

\* Faulty configuration: Pole2_Leaning starts at 4 instead of 5.
MutDefsOverlapping ==
    [ Pole1_Pure    |-> <<0, 0, 1, 3>>,
      Pole1_Leaning |-> <<2, 3, 4, 6>>,
      Pole2_Leaning |-> <<4, 6, 7, 9>>,
      Pole2_Pure    |-> <<8, 9, 11, 11>> ]

\* Faulty configuration: the pole-2 trapezoids mirrored from the pole-1 ones.
MutDefsSymmetric ==
    [ Pole1_Pure    |-> <<0, 0, 1, 3>>,
      Pole1_Leaning |-> <<2, 3, 4, 6>>,
      Pole2_Leaning |-> <<5, 7, 8, 9>>,
      Pole2_Pure    |-> <<8, 10, 11, 11>> ]

\* Faulty configuration: the two leaning trapezoids exchanged.
MutDefsGap ==
    [ Pole1_Pure    |-> <<0, 0, 1, 3>>,
      Pole1_Leaning |-> <<5, 6, 7, 9>>,
      Pole2_Leaning |-> <<2, 3, 4, 6>>,
      Pole2_Pure    |-> <<8, 9, 11, 11>> ]

\* The four trapezoids, breakpoints in whole score points.
output_mf_defs ==
    [ Pole1_Pure    |-> <<0, 0, 1, 3>>,
      Pole1_Leaning |-> <<2, 3, 4, 6>>,
      Pole2_Leaning |-> <<5, 6, 7, 9>>,
      Pole2_Pure    |-> <<8, 9, 11, 11>> ]

\* ------------------------------------------------- skfuzzy membership model

\* fuzz.trimf at one point x, breakpoints a <= b <= c (score units).
trimf(x, a, b, c) ==
    IF x = b THEN MemOne
    ELSE IF b # c /\ b < x /\ x < c THEN ((c - x) * MemOne) \div (c - b)
    ELSE IF a # b /\ a < x /\ x < b THEN ((x - a) * MemOne) \div (b - a)
    ELSE 0

\* fuzz.trapmf at one point x: ones, then the left and the right triangle,
\* then zero outside [a, d]; later assignments override earlier ones.
trapmf(x, abcd) ==
    LET a == abcd[1] * Scale
        b == abcd[2] * Scale
        c == abcd[3] * Scale
        d == abcd[4] * Scale
    IN  IF x > d THEN 0
        ELSE IF x < a THEN 0
        ELSE IF x >= c THEN trimf(x, c, c, d)
        ELSE IF x <= b THEN trimf(x, a, b, b)
        ELSE MemOne

\* fuzz.interp_membership(universe, trapmf(universe, abcd), score): np.interp
\* over the sampled trapezoid, 0 left and right of the universe.
interp_membership(abcd, score) ==
    IF score < universe(0) \/ score > UniverseMax THEN 0
    ELSE LET i  == score \div GridStep
             r  == score % GridStep
             y0 == trapmf(universe(i), abcd)
         IN  IF r = 0 THEN y0
             ELSE LET y1 == trapmf(universe(i + 1), abcd)
                  IN  y0 + ((y1 - y0) * r) \div GridStep

total_mem_pole1(score) ==
    interp_membership(output_mf_defs.Pole1_Pure, score)
        + interp_membership(output_mf_defs.Pole1_Leaning, score)

total_mem_pole2(score) ==
    interp_membership(output_mf_defs.Pole2_Pure, score)
        + interp_membership(output_mf_defs.Pole2_Leaning, score)

\* --------------------------------------------------------------- classifiers

\* Faulty variant: >= for >, a tie goes to pole 1.
MutFuzzyTieToPole1(score) ==
    IF total_mem_pole1(score) >= total_mem_pole2(score) THEN P1 ELSE P2

get_fuzzy_dominant_pole(score) ==
    IF total_mem_pole1(score) > total_mem_pole2(score) THEN P1
    ELSE IF total_mem_pole2(score) > total_mem_pole1(score) THEN P2
    ELSE UNDET

\* Faulty variant: <= for <, the midpoint goes to pole 1.
MutCrispInclusive(score) ==
    IF score <= Midpoint THEN P1 ELSE P2

get_questionnaire_category(score) ==
    IF score < Midpoint THEN P1 ELSE P2

\* Faulty variant: an Undetermined system tendency counts as a match.
MutMatchUndetermined(system_cat, questionnaire_cat) ==
    IF system_cat = questionnaire_cat \/ system_cat = UNDET THEN YES ELSE NO

\* match = 'Yes' if system_category == questionnaire_category else 'No'
MatchFlag(system_cat, questionnaire_cat) ==
    IF system_cat = questionnaire_cat THEN YES ELSE NO

\* round(score, 2): to the nearest multiple of 0.01, ties to even.
round2(score) ==
    LET lo == (score \div GridStep) * GridStep
        r  == score - lo
    IN  IF 2 * r < GridStep THEN lo
        ELSE IF 2 * r > GridStep THEN lo + GridStep
        ELSE IF (lo \div GridStep) % 2 = 0 THEN lo ELSE lo + GridStep

\* ------------------------------------------------------- names and merge key

\* Characters of a student name; a name is a sequence of them.
SPACE == " "

TAB == "\t"

UNDERSCORE == "_"

Whitespace == {SPACE, TAB}

\* str.replace(' ', '_'): every space becomes an underscore.
str_replace(s) ==
    [k \in 1..Len(s) |-> IF s[k] = SPACE THEN UNDERSCORE ELSE s[k]]

RECURSIVE lstrip(_)
lstrip(s) ==
    IF s # <<>> /\ Head(s) \in Whitespace THEN lstrip(Tail(s)) ELSE s

RECURSIVE rstrip(_)
rstrip(s) ==
    IF s # <<>> /\ s[Len(s)] \in Whitespace
    THEN rstrip(SubSeq(s, 1, Len(s) - 1)) ELSE s

\* str.strip(): leading and trailing whitespace removed.
str_strip(s) == rstrip(lstrip(s))

\* df['student_name'].str.replace(' ', '_').str.strip()
merge_key(name) == str_strip(str_replace(name))

\* ---------------------------------------------------------------- dimensions

\* dimensions_map, in its insertion order.
DimOrder == <<"Processing", "Perception", "Input", "Understanding">>

Dims == {DimOrder[k] : k \in 1..Len(DimOrder)}

dimensions_map ==
    [ Processing    |-> "style_score_Processing_Style",
      Perception    |-> "style_score_Perception_Style",
      Input         |-> "style_score_Input_Modality_Style",
      Understanding |-> "style_score_Understanding_Style" ]

STUDENT_NAME == "student_name"

ScoreColumns == {dimensions_map[d] : d \in Dims}

AllColumns == {STUDENT_NAME} \cup ScoreColumns

\* ------------------------------------------------------------------- inputs

StudentNames ==
    { <<"a", SPACE, "b">>, <<"a", SPACE, "b", SPACE>>,
      <<"a", SPACE, "b", TAB>>, <<"c">> }

\* Score rows of the system table, per dimension in DimOrder: 0, 16/3, 5.4
\* and 11.5 (outside the universe); 11, 4.5, a cell that is no number, 5.5.
SystemScoreRows ==
    { <<Num(0), Num((16 * Scale) \div 3), Num((54 * Scale) \div 10),
        Num((115 * Scale) \div 10)>>,
      <<Num(11 * Scale), Num((45 * Scale) \div 10), NonNumeric, Num(Midpoint)>> }

\* Score row of the questionnaire table: 0, 5.5, 5.49, 11.
QuestionnaireScoreRows ==
    { <<Num(0), Num(Midpoint), Num(Midpoint - GridStep), Num(11 * Scale)>> }

ScoresOf(seq) == [d \in Dims |-> seq[CHOOSE k \in 1..Len(DimOrder) : DimOrder[k] = d]]

Records(scoreRows) ==
    { [student_name |-> n, scores |-> ScoresOf(sc)] :
        n \in StudentNames, sc \in scoreRows }

SeqsUpTo(S, n) == UNION { [1..k -> S] : k \in 0..n }

\* A table may lack one column.
ColumnChoices == {AllColumns} \cup {AllColumns \ {c} : c \in {STUDENT_NAME, dimensions_map.Perception}}

\* No file at the path, and no table loaded.
MISSING == [exists |-> FALSE, columns |-> {}, rows |-> <<>>]

Tables(scoreRows) ==
    { [exists |-> TRUE, columns |-> cs, rows |-> rs] :
        cs \in ColumnChoices, rs \in SeqsUpTo(Records(scoreRows), MaxRecords) }

SystemFiles == {MISSING} \cup Tables(SystemScoreRows)

QuestionnaireFiles == {MISSING} \cup Tables(QuestionnaireScoreRows)

\* -------------------------------------------------------------------- state

VARIABLES
    pc,                          \* position in the script
    system_results_file,         \* the system table on disk, or MISSING
    questionnaire_results_file,  \* the questionnaire table on disk, or MISSING
    df_system,                   \* the loaded system table
    df_questionnaire,            \* the loaded questionnaire table
    df_merged,                   \* the inner join
    row_idx,                     \* loop position: row of df_merged
    dim_idx,                     \* loop position: dimension
    system_score,
    questionnaire_score,
    system_category,
    questionnaire_category,
    match,
    comparison_results,          \* the result table, append-only
    report,                      \* the agreement lines printed
    output_file,                 \* the output file on disk: written, rows
    caught                       \* the except clause that ran, or NONE

vars ==
    << pc, system_results_file, questionnaire_results_file, df_system,
       df_questionnaire, df_merged, row_idx, dim_idx, system_score,
       questionnaire_score, system_category, questionnaire_category, match,
       comparison_results, report, output_file, caught >>

NONE == "none"

files == <<system_results_file, questionnaire_results_file>>

frames == <<df_system, df_questionnaire, df_merged>>

locals == <<system_score, questionnaire_score, system_category,
            questionnaire_category, match>>

Init ==
    /\ pc = "read_system"
    /\ system_results_file \in SystemFiles
    /\ questionnaire_results_file \in QuestionnaireFiles
    /\ df_system = MISSING
    /\ df_questionnaire = MISSING
    /\ df_merged = MISSING
    /\ row_idx = 1
    /\ dim_idx = 1
    /\ system_score = 0
    /\ questionnaire_score = 0
    /\ system_category = NONE
    /\ questionnaire_category = NONE
    /\ match = NONE
    /\ comparison_results = <<>>
    /\ report = <<>>
    /\ output_file = [exists |-> FALSE, rows |-> <<>>]
    /\ caught = NONE

\* ----------------------------------------------------------------- pipeline

\* Faulty variant: the except clause falls through to the save.
MutRaiseContinues(exc) ==
    /\ caught' = exc
    /\ pc' = "save"

\* An except clause ran: it prints its message and the script ends.
Raise(exc) ==
    /\ caught' = exc
    /\ pc' = "failed"

\* df_system = pd.read_excel(system_results_file)
ReadSystem ==
    /\ pc = "read_system"
    /\ IF system_results_file.exists
       THEN /\ df_system' = system_results_file
            /\ pc' = "read_questionnaire"
            /\ UNCHANGED caught
       ELSE /\ Raise("FileNotFoundError")
            /\ UNCHANGED df_system
    /\ UNCHANGED << files, df_questionnaire, df_merged, row_idx, dim_idx,
                    locals, comparison_results, report, output_file >>

\* df_questionnaire = pd.read_excel(questionnaire_results_file)
ReadQuestionnaire ==
    /\ pc = "read_questionnaire"
    /\ IF questionnaire_results_file.exists
       THEN /\ df_questionnaire' = questionnaire_results_file
            /\ pc' = "merge_key"
            /\ UNCHANGED caught
       ELSE /\ Raise("FileNotFoundError")
            /\ UNCHANGED df_questionnaire
    /\ UNCHANGED << files, df_system, df_merged, row_idx, dim_idx,
                    locals, comparison_results, report, output_file >>

MERGE_KEY == "merge_key"

\* df['merge_key'] = df['student_name'].str.replace(' ', '_').str.strip()
WithMergeKey(df) ==
    [ exists  |-> TRUE,
      columns |-> df.columns \cup {MERGE_KEY},
      rows    |-> [k \in 1..Len(df.rows) |->
                     [ student_name |-> df.rows[k].student_name,
                       scores       |-> df.rows[k].scores,
                       merge_key    |-> merge_key(df.rows[k].student_name) ]] ]

CreateMergeKeys ==
    /\ pc = "merge_key"
    /\ IF STUDENT_NAME \in df_system.columns /\ STUDENT_NAME \in df_questionnaire.columns
       THEN /\ df_system' = WithMergeKey(df_system)
            /\ df_questionnaire' = WithMergeKey(df_questionnaire)
            /\ pc' = "merge"
            /\ UNCHANGED caught
       ELSE /\ Raise("KeyError")
            /\ UNCHANGED << df_system, df_questionnaire >>
    /\ UNCHANGED << files, df_merged, row_idx, dim_idx, locals,
                    comparison_results, report, output_file >>

SYSTEM == "_system"

QUESTIONNAIRE == "_questionnaire"

\* The rows of the right table whose key is that of the left row, in order.
RECURSIVE MatchesOf(_, _)
MatchesOf(l, rights) ==
    IF rights = <<>> THEN <<>>
    ELSE (IF Head(rights).merge_key = l.merge_key
          THEN << [merge_key |-> l.merge_key, system |-> l, questionnaire |-> Head(rights)] >>
          ELSE <<>>) \o MatchesOf(l, Tail(rights))

RECURSIVE InnerJoin(_, _)
InnerJoin(lefts, rights) ==
    IF lefts = <<>> THEN <<>>
    ELSE MatchesOf(Head(lefts), rights) \o InnerJoin(Tail(lefts), rights)

\* pd.merge(left, right, on='merge_key', how='inner',
\*          suffixes=('_system', '_questionnaire')): a column of both tables
\* gets the table's suffix, a column of one table keeps its name.
pd_merge(left, right) ==
    [ exists  |-> TRUE,
      columns |-> {<<MERGE_KEY, "">>}
                    \cup {<<c, IF c \in right.columns THEN SYSTEM ELSE "">> :
                            c \in left.columns \ {MERGE_KEY}}
                    \cup {<<c, IF c \in left.columns THEN QUESTIONNAIRE ELSE "">> :
                            c \in right.columns \ {MERGE_KEY}},
      rows    |-> InnerJoin(left.rows, right.rows) ]

\* The merge, and exit() when it is empty.
Merge ==
    /\ pc = "merge"
    /\ df_merged' = pd_merge(df_system, df_questionnaire)
    /\ pc' = IF df_merged'.rows = <<>> THEN "exited" ELSE "compare"
    /\ UNCHANGED << files, df_system, df_questionnaire, row_idx, dim_idx, locals,
                    comparison_results, report, output_file, caught >>

ComparisonRow(row, dim_name, sys_score, q_score) ==
    [ Student_Name           |-> row.system.student_name,
      Dimension              |-> dim_name,
      System_Score           |-> round2(sys_score),
      Questionnaire_Score    |-> round2(q_score),
      System_Tendency        |-> get_fuzzy_dominant_pole(sys_score),
      Questionnaire_Tendency |-> get_questionnaire_category(q_score),
      Match                  |-> MatchFlag(get_fuzzy_dominant_pole(sys_score),
                                           get_questionnaire_category(q_score)) ]

\* One pass of the inner loop: one merged row, one dimension.
CompareCell ==
    /\ pc = "compare"
    /\ LET row           == df_merged.rows[row_idx]
           dim_name      == DimOrder[dim_idx]
           col_base_name == dimensions_map[dim_name]
           sys_cell      == row.system.scores[dim_name]
           q_cell        == row.questionnaire.scores[dim_name]
       IN  IF \/ <<col_base_name, SYSTEM>> \notin df_merged.columns
              \/ <<col_base_name, QUESTIONNAIRE>> \notin df_merged.columns
           THEN /\ Raise("KeyError")
                /\ UNCHANGED << row_idx, dim_idx, locals, comparison_results >>
           ELSE IF ~sys_cell.numeric \/ ~q_cell.numeric
           THEN \* np.interp, or the comparison with 5.5, raises TypeError
                /\ Raise("Exception")
                /\ UNCHANGED << row_idx, dim_idx, locals, comparison_results >>
           ELSE LET new == ComparisonRow(row, dim_name, sys_cell.value, q_cell.value)
                IN  /\ system_score' = sys_cell.value
                    /\ questionnaire_score' = q_cell.value
                    /\ system_category' = new.System_Tendency
                    /\ questionnaire_category' = new.Questionnaire_Tendency
                    /\ match' = new.Match
                    /\ comparison_results' = Append(comparison_results, new)
                    /\ IF dim_idx < Len(DimOrder)
                       THEN /\ dim_idx' = dim_idx + 1
                            /\ UNCHANGED << row_idx, pc >>
                       ELSE /\ dim_idx' = 1
                            /\ row_idx' = row_idx + 1
                            /\ pc' = IF row_idx < Len(df_merged.rows)
                                     THEN "compare" ELSE "report"
                    /\ UNCHANGED caught
    /\ UNCHANGED << files, frames, report, output_file >>

\* ---------------------------------------------------------- agreement report

\* (match_count / total_count) * 100 if total_count > 0 else 0, as the
\* exact fraction num/den.
percentage(match_count, total_count) ==
    IF total_count > 0
    THEN [num |-> match_count * 100, den |-> total_count]
    ELSE [num |-> 0, den |-> 1]

\* f"{percentage:.2f}": the number of hundredths printed, ties to even.
format2f(p) ==
    LET n == p.num * 100
        q == n \div p.den
        r == n - q * p.den
    IN  IF 2 * r < p.den THEN q
        ELSE IF 2 * r > p.den THEN q + 1
        ELSE IF q % 2 = 0 THEN q ELSE q + 1

\* Faulty variant: the rows are not filtered by dimension.
MutSubsetAllRows(table, dim_name) == table

\* df_final_comparison[df_final_comparison['Dimension'] == dim_name]
DimSubset(table, dim_name) ==
    LET OfDim(r) == r.Dimension = dim_name
    IN  SelectSeq(table, OfDim)

\* One line of the report.
AgreementLine(table, dim_name) ==
    LET subset      == DimSubset(table, dim_name)
        IsMatch(r)  == r.Match = YES
        match_count == Len(SelectSeq(subset, IsMatch))
        total_count == Len(subset)
    IN  [ Dimension   |-> dim_name,
          percentage  |-> percentage(match_count, total_count),
          printed     |-> format2f(percentage(match_count, total_count)),
          total_count |-> total_count ]

\* The report loop over dimensions_map.keys().  A DataFrame made from an
\* empty list has no 'Dimension' column, and selecting it raises KeyError.
Report ==
    /\ pc = "report"
    /\ IF comparison_results = <<>>
       THEN /\ Raise("KeyError")
            /\ UNCHANGED report
       ELSE /\ report' = [k \in 1..Len(DimOrder) |->
                            AgreementLine(comparison_results, DimOrder[k])]
            /\ pc' = "save"
            /\ UNCHANGED caught
    /\ UNCHANGED << files, frames, row_idx, dim_idx, locals,
                    comparison_results, output_file >>

\* df_final_comparison.to_excel(output_file, ...)
Save ==
    /\ pc = "save"
    /\ output_file' = [exists |-> TRUE, rows |-> comparison_results]
    /\ pc' = "done"
    /\ UNCHANGED << files, frames, row_idx, dim_idx, locals,
                    comparison_results, report, caught >>

Next ==
    \/ ReadSystem
    \/ ReadQuestionnaire
    \/ CreateMergeKeys
    \/ Merge
    \/ CompareCell
    \/ Report
    \/ Save

Spec == Init /\ [][Next]_vars

\* ------------------------------------------- the classifiers on every score

\* Scores handed to the classifiers: from 0.5 below the universe to 0.5
\* above it, every multiple of 1/Scale.
ScoreInputs == (0 - Scale \div 2) .. (UniverseMax + Scale \div 2)

Idle ==
    /\ system_results_file = MISSING
    /\ questionnaire_results_file = MISSING
    /\ df_system = MISSING
    /\ df_questionnaire = MISSING
    /\ df_merged = MISSING
    /\ row_idx = 1
    /\ dim_idx = 1
    /\ report = <<>>
    /\ output_file = [exists |-> FALSE, rows |-> <<>>]
    /\ caught = NONE

InitClassify ==
    /\ Idle
    /\ pc = "classify"
    /\ system_score \in ScoreInputs
    /\ questionnaire_score \in {system_score, Midpoint - 1, Midpoint}
    /\ system_category = NONE
    /\ questionnaire_category = NONE
    /\ match = NONE
    /\ comparison_results = <<>>

\* The body of the comparison loop on one pair of scores: categorize both
\* and compare the categories.
Classify ==
    /\ pc = "classify"
    /\ system_category' = get_fuzzy_dominant_pole(system_score)
    /\ questionnaire_category' = get_questionnaire_category(questionnaire_score)
    /\ match' = MatchFlag(system_category', questionnaire_category')
    /\ pc' = "classified"
    /\ UNCHANGED << files, frames, row_idx, dim_idx, system_score,
                    questionnaire_score, comparison_results, report,
                    output_file, caught >>

NextClassify == Classify

SpecClassify == InitClassify /\ [][NextClassify]_vars

\* ------------------------------------------ the report on every result table

ProbeRow(name) ==
    [ merge_key     |-> merge_key(name),
      system        |-> [student_name |-> name],
      questionnaire |-> [student_name |-> name] ]

\* A row whose categories agree (both scores 0) and one whose categories
\* differ (system score 11, questionnaire score 0).
MatchingRow(dim_name) == ComparisonRow(ProbeRow(<<"c">>), dim_name, 0, 0)

MismatchRow(dim_name) == ComparisonRow(ProbeRow(<<"c">>), dim_name, 11 * Scale, 0)

\* total rows of dimension DimOrder[k], m of them matching, then e matching
\* rows of the dimension after it.
TableOf(k, total, m, e) ==
    [j \in 1..(total + e) |->
        IF j <= m THEN MatchingRow(DimOrder[k])
        ELSE IF j <= total THEN MismatchRow(DimOrder[k])
        ELSE MatchingRow(DimOrder[(k % Len(DimOrder)) + 1])]

\* The result tables handed to the report; none is empty, as the script
\* exits on an empty join.
ReportShapes ==
    { sh \in (1..Len(DimOrder)) \X (0..MaxDimRows) \X (0..MaxDimRows) \X (0..1) :
        sh[3] <= sh[2] /\ sh[2] + sh[4] >= 1 }

ReportTables == { TableOf(sh[1], sh[2], sh[3], sh[4]) : sh \in ReportShapes }

InitReport ==
    /\ Idle
    /\ pc = "report"
    /\ comparison_results \in ReportTables
    /\ system_score = 0
    /\ questionnaire_score = 0
    /\ system_category = NONE
    /\ questionnaire_category = NONE
    /\ match = NONE

NextReport ==
    \/ Report
    \/ Save

SpecReport == InitReport /\ [][NextReport]_vars

\* ---------------------------------------------------------------- properties

Labels == {P1, P2, UNDET}

InUniverse(score) == 0 <= score /\ score <= 11 * Scale

Classified == pc = "classified"

\* The fuzzy outcome of every score handed to the classifiers.
FuzzyOutcome == [x \in ScoreInputs |-> get_fuzzy_dominant_pole(x)]

Pole1Total(score) ==
    interp_membership(<<0, 0, 1, 3>>, score) + interp_membership(<<2, 3, 4, 6>>, score)

Pole2Total(score) ==
    interp_membership(<<8, 9, 11, 11>>, score) + interp_membership(<<5, 6, 7, 9>>, score)

\* C1: for every score the fuzzy classifier returns exactly one of the three
\* labels, decided by the summed memberships: Pole_1_Tendency iff the pole-1
\* total is the larger, Pole_2_Tendency iff the pole-2 total is the larger,
\* Undetermined iff the totals are equal (both zero included).
C1_FuzzyDecidedByTotals ==
    Classified =>
        /\ system_category \in Labels
        /\ system_category = P1 <=> Pole1Total(system_score) > Pole2Total(system_score)
        /\ system_category = P2 <=> Pole2Total(system_score) > Pole1Total(system_score)
        /\ system_category = UNDET <=> Pole1Total(system_score) = Pole2Total(system_score)

\* C1 witness: a score classified Undetermined on equal totals that are not
\* zero.
C1_Witness ==
    /\ Classified
    /\ system_category = UNDET
    /\ Pole1Total(system_score) = Pole2Total(system_score)
    /\ Pole1Total(system_score) > 0

\* C2: for every reference score the crisp classifier returns
\* Pole_1_Tendency iff the score is strictly below 5.5 and Pole_2_Tendency
\* otherwise, never Undetermined; 5.5 itself is Pole_2_Tendency.
C2_CrispMidpoint ==
    Classified =>
        /\ questionnaire_category \in {P1, P2}
        /\ questionnaire_category = P1 <=> 2 * questionnaire_score < 11 * Scale
        /\ questionnaire_category = P2 <=> 2 * questionnaire_score >= 11 * Scale

\* C2 witness: the boundary score 5.5, classified Pole_2_Tendency.
C2_Witness ==
    /\ Classified
    /\ 2 * questionnaire_score = 11 * Scale
    /\ questionnaire_category = P2

\* C3: in every row of the result table the match flag is Yes iff the two
\* tendency labels are equal; a row whose system tendency is Undetermined
\* has the flag No.
C3_MatchIffEqualLabels ==
    \A k \in 1..Len(comparison_results) :
        LET r == comparison_results[k]
        IN  /\ r.Match \in {YES, NO}
            /\ r.Match = YES <=> r.System_Tendency = r.Questionnaire_Tendency
            /\ r.System_Tendency = UNDET => r.Match = NO

\* C3 witness: a result table holding a matching row and an Undetermined
\* row, the latter for a score inside the universe.
C3_Witness ==
    /\ \E k \in 1..Len(comparison_results) : comparison_results[k].Match = YES
    /\ \E k \in 1..Len(comparison_results) :
          /\ comparison_results[k].System_Tendency = UNDET
          /\ InUniverse(comparison_results[k].System_Score)
          /\ comparison_results[k].Match = NO

RowsOf(table, dim_name) ==
    Cardinality({k \in 1..Len(table) : table[k].Dimension = dim_name})

YesOf(table, dim_name) ==
    Cardinality({k \in 1..Len(table) :
                    table[k].Dimension = dim_name /\ table[k].Match = YES})

Reported == pc \in {"save", "done"}

Rank(label) == IF label = P1 THEN 1 ELSE IF label = UNDET THEN 2 ELSE 3

\* C5: for all scores x <= y in [0, 11] the fuzzy outcome at y is not
\* earlier than the outcome at x in the order Pole_1_Tendency <
\* Undetermined < Pole_2_Tendency.
C5_Monotone ==
    (Classified /\ InUniverse(system_score)) =>
        \A y \in system_score..(11 * Scale) :
            Rank(FuzzyOutcome[y]) >= Rank(system_category)

\* C5 witness: a score inside the universe classified Undetermined, with
\* Pole_1_Tendency right below it and Pole_2_Tendency right above it.
C5_Witness ==
    /\ Classified
    /\ InUniverse(system_score)
    /\ system_category = UNDET
    /\ FuzzyOutcome[system_score - 1] = P1
    /\ FuzzyOutcome[system_score + 1] = P2

Opposite(l1, l2) == (l1 = P1 /\ l2 = P2) \/ (l1 = P2 /\ l2 = P1)

\* C6: for every score x in [0, 11] other than 5.5, the fuzzy outcomes at x
\* and at 11 - x are opposite poles.
C6_Symmetry ==
    (Classified /\ InUniverse(system_score) /\ 2 * system_score # 11 * Scale) =>
        Opposite(system_category, FuzzyOutcome[11 * Scale - system_score])

\* C7 as stated: at score 4.5 the degrees in Pole1_Leaning and Pole2_Leaning
\* are both above 0 and the outcome is the pole with the larger total.
C7_BothLeaningsAt45 ==
    (Classified /\ 10 * system_score = 45 * Scale) =>
        /\ interp_membership(<<2, 3, 4, 6>>, system_score) > 0
        /\ interp_membership(<<5, 6, 7, 9>>, system_score) > 0
        /\ Pole1Total(system_score) > Pole2Total(system_score) => system_category = P1
        /\ Pole2Total(system_score) > Pole1Total(system_score) => system_category = P2

\* C7 amended: at score 4.5 the degree in Pole1_Leaning is 0.75 and that in
\* Pole2_Leaning is 0, and the outcome is Pole_1_Tendency, the pole with the
\* larger total.
C7_OnlyPole1LeaningAt45 ==
    (Classified /\ 10 * system_score = 45 * Scale) =>
        /\ 4 * interp_membership(output_mf_defs.Pole1_Leaning, system_score) = 3 * MemOne
        /\ interp_membership(output_mf_defs.Pole2_Leaning, system_score) = 0
        /\ total_mem_pole1(system_score) > total_mem_pole2(system_score)
        /\ system_category = P1

\* C7 witness: the score 4.5 has been classified.
C7_Witness ==
    /\ Classified
    /\ 10 * system_score = 45 * Scale
    /\ system_category = P1

Ended == pc \in {"failed", "exited"}

HasAllColumns(file) == AllColumns \subseteq file.columns

\* The records the two files share: pairs of rows with the same merge key.
JoinedPairs ==
    { p \in (1..Len(system_results_file.rows)) \X (1..Len(questionnaire_results_file.rows)) :
        merge_key(system_results_file.rows[p[1]].student_name)
            = merge_key(questionnaire_results_file.rows[p[2]].student_name) }

AllCellsNumeric ==
    \A p \in JoinedPairs : \A d \in Dims :
        /\ system_results_file.rows[p[1]].scores[d].numeric
        /\ questionnaire_results_file.rows[p[2]].scores[d].numeric

\* C8: the result table is written only after both inputs were read, the
\* join was not empty and every (joined record, dimension) pair was
\* classified and appended; a run that meets a missing file, a missing
\* column, an empty join or any other failure ends without writing the
\* output file, and after a failure nothing more runs.
C8_OutputOnlyAfterFullPass ==
    /\ output_file.exists =>
          /\ system_results_file.exists /\ questionnaire_results_file.exists
          /\ df_system.exists /\ df_questionnaire.exists
          /\ HasAllColumns(system_results_file)
          /\ HasAllColumns(questionnaire_results_file)
          /\ JoinedPairs # {}
          /\ AllCellsNumeric
          /\ df_merged.exists /\ df_merged.rows # <<>>
          /\ Len(df_merged.rows) = Cardinality(JoinedPairs)
          /\ Len(comparison_results) = Len(df_merged.rows) * Len(DimOrder)
          /\ \A i \in 1..Len(df_merged.rows) : \A k \in 1..Len(DimOrder) :
                LET r == comparison_results[(i - 1) * Len(DimOrder) + k]
                IN  /\ r.Dimension = DimOrder[k]
                    /\ r.Student_Name = df_merged.rows[i].system.student_name
                    /\ r.System_Tendency \in Labels
                    /\ r.Questionnaire_Tendency \in {P1, P2}
          /\ output_file.rows = comparison_results
          /\ caught = NONE
          /\ pc = "done"
    /\ (caught # NONE \/ Ended) =>
          /\ Ended
          /\ ~output_file.exists
          /\ ~ENABLED Next

\* C8 witness: a run over two joined records that wrote its eight rows.
C8_Witness ==
    /\ pc = "done"
    /\ output_file.exists
    /\ Len(output_file.rows) = 2 * Len(DimOrder)

RECURSIVE TrimSpaces(_)
TrimSpaces(s) ==
    IF s # <<>> /\ Head(s) = SPACE THEN TrimSpaces(Tail(s))
    ELSE IF s # <<>> /\ s[Len(s)] = SPACE THEN TrimSpaces(SubSeq(s, 1, Len(s) - 1))
    ELSE s

\* C9: two student names that differ only in leading or trailing spaces get
\* the same merge key, so a student present in both inputs under such names
\* is matched by the inner join.
C9_TrimmedNamesJoin ==
    df_merged.exists =>
        \A i \in 1..Len(df_system.rows) : \A j \in 1..Len(df_questionnaire.rows) :
            TrimSpaces(df_system.rows[i].student_name)
                    = TrimSpaces(df_questionnaire.rows[j].student_name)
                => /\ df_system.rows[i].merge_key = df_questionnaire.rows[j].merge_key
                   /\ \E m \in 1..Len(df_merged.rows) :
                         /\ df_merged.rows[m].system = df_system.rows[i]
                         /\ df_merged.rows[m].questionnaire = df_questionnaire.rows[j]

\* C10: when the system score and the reference score are the same value s
\* in [0, 11], the match flag is Yes iff s < 16/3 or s >= 5.5; for
\* 16/3 <= s < 5.5 the crisp outcome is Pole_1_Tendency while the fuzzy one
\* is Undetermined at 16/3 and Pole_2_Tendency above it; 16/3 is the only
\* score of [0, 11] classified Undetermined.
C10_CutsDiffer ==
    (Classified /\ system_score = questionnaire_score /\ InUniverse(system_score)) =>
        LET s == system_score
        IN  /\ match = YES <=> (3 * s < 16 * Scale \/ 2 * s >= 11 * Scale)
            /\ system_category = UNDET <=> 3 * s = 16 * Scale
            /\ (3 * s >= 16 * Scale /\ 2 * s < 11 * Scale) =>
                  /\ match = NO
                  /\ questionnaire_category = P1
                  /\ 3 * s > 16 * Scale => system_category = P2

\* C10 witness: both scores 16/3, the fuzzy outcome Undetermined, a mismatch.
C10_Witness ==
    /\ Classified
    /\ system_score = questionnaire_score
    /\ 3 * system_score = 16 * Scale
    /\ system_category = UNDET
    /\ questionnaire_category = P1
    /\ match = NO

====
